---- MODULE Spec2Model ----
(***************************************************************************)
(* Model of the vuu column-set and module-assembly code.                   *)
(*                                                                         *)
(*   ViewPortColumns (vuu/.../viewport/ViewPortColumns.scala): a mutable   *)
(*   column list with a lazily memoised "has a calculated column" flag,    *)
(*   row projection (pullRow) and order-insensitive equality.              *)
(*                                                                         *)
(*   TableDefs / ModuleFactoryNode (core/module, unnamed/part_000): the    *)
(*   immutable builder of a ViewServerModule and the join realisation loop *)
(*   of asModule().                                                        *)
(***************************************************************************)
EXTENDS Integers, Sequences, FiniteSets, TLC

\* ------------------------------------------------------------------------
\* Bounds
\* ------------------------------------------------------------------------
\* Longest column list a ViewPortColumns instance is grown to.
MaxColumns == 2
\* Number of ModuleFactoryNode values built in one run (the namespace node
\* included).
MaxNodes == 4

\* ------------------------------------------------------------------------
\* Values
\* ------------------------------------------------------------------------
\* The two ViewPortColumns instances under observation.
Insts == {1, 2}

\* Column(name, dataType); calculated marks an instance of CalculatedColumn.
Col(n, t, calc) == [name |-> n, dataType |-> t, calculated |-> calc]

Columns ==
  { Col("a", "int", FALSE), Col("a", "string", FALSE),
    Col("b", "int", FALSE), Col("c", "int", TRUE) }

ColumnNames == { c.name : c \in Columns }

\* Scala's String ordering, restricted to the names in use.
NameRank(n) == CASE n = "a" -> 1 [] n = "b" -> 2 [] n = "c" -> 3

\* Source rows (RowData): the stored physical values by column name.
Rows == { [a |-> 5, b |-> 7], [a |-> 6, b |-> 7] }

Keys == { "k1", "k2" }

\* RowData.get(column): a physical column reads the stored value, a
\* calculated column evaluates its expression (here a * 2) on the row.
RowGet(row, c) == IF c.calculated THEN row.a * 2 ELSE row[c.name]

SeqsUpTo(S, n) == UNION { [1..k -> S] : k \in 0..n }

\* ------------------------------------------------------------------------
\* State
\* ------------------------------------------------------------------------
VARIABLES
  columns,              \* inst -> List[Column]        (private var columns)
  hasCalculatedColumn,  \* inst -> the lazy val's cell
  ret,                  \* observation of the most recent ViewPortColumns call
  nodes,                \* the ModuleFactoryNode values built so far
  made,                 \* how nodes[i] was obtained: receiver, call, argument
  module,               \* outcome of the most recent asModule() call
  provider,             \* outcome of the most recent getProviderForTable call
  threads,              \* threads inside ViewPortColumns.addColumn
  vp,                   \* the viewport engine: table version, viewport, deltas
  menu,                 \* a useVuuMenuActions hook and its data source
  layout                \* a LayoutManagementProvider and its persistence

colVars == <<columns, hasCalculatedColumn, ret>>

modVars == <<nodes, made, module, provider>>

\* what the sequential ViewPortColumns calls leave alone
notColVars == <<modVars, threads, vp, menu, layout>>

\* what module assembly leaves alone
notModVars == <<colVars, threads, vp, menu, layout>>

vars == <<columns, hasCalculatedColumn, ret, nodes, made, module, provider,
          threads, vp, menu, layout>>

NoCall == [op |-> "none"]

\* ------------------------------------------------------------------------
\* ViewPortColumns: pure parts
\* ------------------------------------------------------------------------
\* columns.exists(c => c.isInstanceOf[CalculatedColumn])
ExistsCalculated(cols) == \E k \in 1..Len(cols) : cols[k].calculated

\* Forcing the lazy val: the initialiser runs once, on first access, and the
\* value it computed is what every later access sees.
Force(cell, cols) ==
  IF cell.evaluated THEN cell
  ELSE [evaluated |-> TRUE, value |-> ExistsCalculated(cols)]

\* List.sortBy(c => c.name): a stable sort, as insertion of each element
\* after the elements whose name is not greater.
RECURSIVE InsertByName(_, _)
InsertByName(sorted, c) ==
  IF sorted = <<>> THEN <<c>>
  ELSE IF NameRank(c.name) < NameRank(Head(sorted).name)
       THEN <<c>> \o sorted
       ELSE <<Head(sorted)>> \o InsertByName(Tail(sorted), c)

RECURSIVE SortByName(_)
SortByName(cols) ==
  IF cols = <<>> THEN <<>>
  ELSE InsertByName(SortByName(SubSeq(cols, 1, Len(cols) - 1)), cols[Len(cols)])

Min(x, y) == IF x < y THEN x ELSE y

\* this.columns.sortBy(name).zip(that.columns.sortBy(name)).count(mismatch)
MismatchCount(thisCols, thatCols) ==
  LET l == SortByName(thisCols)
      r == SortByName(thatCols)
  IN Cardinality({ k \in 1..Min(Len(l), Len(r)) :
                     l[k].name # r[k].name \/ l[k].dataType # r[k].dataType })

\* ViewPortColumns.equals, for that a ViewPortColumns
Equals(thisCols, thatCols) ==
  /\ Len(thisCols) = Len(thatCols)
  /\ 0 = MismatchCount(thisCols, thatCols)

\* getColumns().map(c => c.name -> row.get(c)).toMap : a later column of the
\* same name replaces an earlier one.
ToMap(cols, row) ==
  [ n \in { cols[k].name : k \in 1..Len(cols) } |->
      LET last == CHOOSE k \in 1..Len(cols) :
                    /\ cols[k].name = n
                    /\ \A j \in (k+1)..Len(cols) : cols[j].name # n
      IN RowGet(row, cols[last]) ]

\* pullRowAlwaysFilter: RowWithData(key, rowData), a fresh object
PullRowAlwaysFilter(cols, key, row) ==
  [ref |-> "new", key |-> key, data |-> ToMap(cols, row)]

\* the row object handed to pullRow
SourceRow(row) == [ref |-> "source", data |-> row]

\* (variant: the zero-copy fast path dropped, every row is projected)
PullRowResultNoFastPath(flag, cols, key, row) ==
  PullRowAlwaysFilter(cols, key, row)

\* pullRow's result given the (forced) flag
PullRowResult(flag, cols, key, row) ==
  IF ~flag THEN SourceRow(row) ELSE PullRowAlwaysFilter(cols, key, row)

\* Int arithmetic wraps; hashes are kept to 16 bits here, which can only add
\* collisions.
Wrap(x) == x % 65536

\* String.hashCode of the one-letter names in use
StringHash(n) == CASE n = "a" -> 97 [] n = "b" -> 98 [] n = "c" -> 99

\* hashCode of the dataType object
TypeHash(t) == CASE t = "int" -> 10443 [] t = "string" -> 34029

\* Column.hashCode: over the column's (name, dataType) pair
ColumnHash(c) == Wrap(31 * StringHash(c.name) + TypeHash(c.dataType))

\* List[Int].hashCode: an ordered hash, each element mixed into the hash of
\* the elements before it.
RECURSIVE ListHash(_)
ListHash(hs) ==
  IF hs = <<>> THEN 1
  ELSE Wrap(31 * ListHash(SubSeq(hs, 1, Len(hs) - 1)) + hs[Len(hs)])

\* (variant: the hash taken over the columns in declaration order)
HashCodeUnsorted(cols) ==
  ListHash([k \in 1..Len(cols) |-> ColumnHash(cols[k])])

\* columns.sortBy(c => c.name).map(_.hashCode()).hashCode()
HashCode(cols) ==
  LET sorted == SortByName(cols)
  IN ListHash([k \in 1..Len(sorted) |-> ColumnHash(sorted[k])])

getColumns(i) == columns[i]

count(i) == Len(columns[i])

columnExists(i, n) == \E k \in 1..Len(columns[i]) : columns[i][k].name = n

\* ------------------------------------------------------------------------
\* ViewPortColumns: operations
\* ------------------------------------------------------------------------
\* new ViewPortColumns(sourceColumns)
InitColumns ==
  /\ columns \in [Insts -> SeqsUpTo(Columns, MaxColumns)]
  /\ hasCalculatedColumn = [i \in Insts |-> [evaluated |-> FALSE, value |-> FALSE]]
  /\ ret = NoCall

addColumn(i, c) ==
  /\ Len(columns[i]) < MaxColumns
  /\ columns' = [columns EXCEPT ![i] = @ \o <<c>>]
  /\ ret' = [op |-> "addColumn", inst |-> i, column |-> c,
             before |-> columns[i], threw |-> FALSE]
  /\ UNCHANGED <<hasCalculatedColumn, notColVars>>

pullRow(i, key, row) ==
  LET cell == Force(hasCalculatedColumn[i], columns[i])
  IN /\ hasCalculatedColumn' = [hasCalculatedColumn EXCEPT ![i] = cell]
     /\ ret' = [op |-> "pullRow", inst |-> i, key |-> key, row |-> row,
                result |-> PullRowResult(cell.value, columns[i], key, row)]
     /\ UNCHANGED <<columns, notColVars>>

\* this.equals(that); that = 0 stands for an object of another class
equals(i, that) ==
  /\ ret' = [op |-> "equals", inst |-> i, that |-> that,
             result |-> IF that = 0 THEN FALSE
                        ELSE Equals(columns[i], columns[that])]
  /\ UNCHANGED <<columns, hasCalculatedColumn, notColVars>>

hashCode(i) ==
  /\ ret' = [op |-> "hashCode", inst |-> i, result |-> HashCode(columns[i])]
  /\ UNCHANGED <<columns, hasCalculatedColumn, notColVars>>

NextColumns ==
  \/ \E i \in Insts, c \in Columns : addColumn(i, c)
  \/ \E i \in Insts, key \in Keys, row \in Rows : pullRow(i, key, row)
  \/ \E i \in Insts, that \in Insts \cup {0} : equals(i, that)
  \/ \E i \in Insts : hashCode(i)

\* ------------------------------------------------------------------------
\* ViewPortColumns.addColumn called from several threads
\* ------------------------------------------------------------------------
Threads == { "t1", "t2" }

\* The instance the threads share.
Shared == 1

\* No thread has called addColumn yet; count0 is count() at that moment.
ThreadsReady(n) ==
  [count0 |-> n,
   thr |-> [t \in Threads |-> [pc |-> "ready", column |-> <<>>, read |-> <<>>]]]

\* addColumn, first half: the thread evaluates columns ++ List(column) from
\* the value of the volatile field it reads.
addColumnRead(t, c) ==
  /\ threads.thr[t].pc = "ready"
  /\ threads' = [threads EXCEPT !.thr[t] =
                   [pc |-> "read", column |-> <<c>>, read |-> columns[Shared]]]
  /\ UNCHANGED <<colVars, modVars, vp, menu, layout>>

\* addColumn, second half: the thread assigns the list it built to columns.
addColumnWrite(t) ==
  /\ threads.thr[t].pc = "read"
  /\ columns' = [columns EXCEPT
                   ![Shared] = threads.thr[t].read \o threads.thr[t].column]
  /\ threads' = [threads EXCEPT !.thr[t].pc = "done"]
  /\ UNCHANGED <<hasCalculatedColumn, ret, modVars, vp, menu, layout>>

NextThreads ==
  \/ \E t \in Threads, c \in Columns : addColumnRead(t, c)
  \/ \E t \in Threads : addColumnWrite(t)

\* ------------------------------------------------------------------------
\* Module assembly: values
\* ------------------------------------------------------------------------
Namespaces == { "SIMUL" }

\* TableDef / JoinTableDef, identified by name
TableDef(n) == [name |-> n, join |-> FALSE]

JoinTableDef(n) == [name |-> n, join |-> TRUE]

\* (tableDef, provider factory) pairs handed to addTable; "A" can be
\* registered with two different factories.
TableArgs ==
  { <<TableDef("A"), "providerA">>, <<TableDef("A"), "providerA2">>,
    <<TableDef("B"), "providerB">> }

\* Join functions TableDefs => JoinTableDef handed to addJoinTable: each
\* looks up the tables named in uses with TableDefs.get and returns the
\* join definition named produces.
JoinFuncs ==
  { [produces |-> "J1", uses |-> {"A"}],
    [produces |-> "J2", uses |-> {"J1"}],
    [produces |-> "A",  uses |-> {"B"}] }

RpcFuncs == { "rpc1", "rpc2" }

StaticArgs ==
  { [uriDirectory |-> "/docs", path |-> "/srv/docs", canBrowse |-> TRUE],
    [uriDirectory |-> "/img", path |-> "/srv/img", canBrowse |-> FALSE] }

\* ------------------------------------------------------------------------
\* TableDefs
\* ------------------------------------------------------------------------
TableDefs(realized, tables, joins) ==
  [realizedTableDefs |-> realized, tableDefs |-> tables, joinDefs |-> joins]

add(tds, tableDef, func) ==
  TableDefs(tds.realizedTableDefs, tds.tableDefs \o <<<<tableDef, func>>>>,
            tds.joinDefs)

\* (variant: the realized definition is put in front of the list)
addRealizedInFront(tds, tableDef) ==
  TableDefs(<<tableDef>> \o tds.realizedTableDefs, tds.tableDefs, tds.joinDefs)

addRealized(tds, tableDef) ==
  TableDefs(tds.realizedTableDefs \o <<tableDef>>, tds.tableDefs, tds.joinDefs)

addJoin(tds, func) ==
  TableDefs(tds.realizedTableDefs, tds.tableDefs, tds.joinDefs \o <<func>>)

\* (variant: a missing name yields a null definition instead of an exception)
getOrNull(tds, name) ==
  LET hits == { k \in 1..Len(tds.realizedTableDefs) :
                  tds.realizedTableDefs[k].name = name }
  IN IF hits = {} THEN [threw |-> FALSE, value |-> [name |-> "null", join |-> FALSE]]
     ELSE [threw |-> FALSE,
           value |-> tds.realizedTableDefs[CHOOSE k \in hits :
                                             \A j \in hits : k <= j]]

\* realizedTableDefs.find(_.name == name).get : the first match, or
\* NoSuchElementException when there is none.
get(tds, name) ==
  LET hits == { k \in 1..Len(tds.realizedTableDefs) :
                  tds.realizedTableDefs[k].name = name }
  IN IF hits = {} THEN [threw |-> TRUE]
     ELSE [threw |-> FALSE,
           value |-> tds.realizedTableDefs[CHOOSE k \in hits :
                                             \A j \in hits : k <= j]]

\* toJTFunc(mutableTableDefs): the join function's lookups, then its result;
\* an exception of a lookup leaves the function.
ApplyJoin(func, tds) ==
  IF \E n \in func.uses : get(tds, n).threw
  THEN [threw |-> TRUE]
  ELSE [threw |-> FALSE, value |-> JoinTableDef(func.produces)]

\* ------------------------------------------------------------------------
\* ModuleFactoryNode
\* ------------------------------------------------------------------------
ModuleFactoryNode(tds, rpc, vsName, static) ==
  [tableDefs |-> tds, rpc |-> rpc, vsName |-> vsName,
   staticServedResources |-> static]

\* ModuleFactory.withNamespace(ns)
withNamespace(ns) ==
  ModuleFactoryNode(TableDefs(<<>>, <<>>, <<>>), <<>>, ns, <<>>)

\* A call on nodes[n] returning the value node: the caller now holds it too.
Returned(n, call, arg, node) ==
  /\ Len(nodes) < MaxNodes
  /\ nodes' = Append(nodes, node)
  /\ made' = Append(made, [from |-> n, call |-> call, arg |-> arg])
  /\ UNCHANGED <<module, provider, notModVars>>

\* (variant: a mutable builder, the receiver is updated and returned)
addTableInPlace(n, tableDef, func) ==
  LET node == ModuleFactoryNode(add(nodes[n].tableDefs, tableDef, func),
                nodes[n].rpc, nodes[n].vsName, nodes[n].staticServedResources)
  IN /\ Len(nodes) < MaxNodes
     /\ nodes' = Append([nodes EXCEPT ![n] = node], node)
     /\ made' = Append(made, [from |-> n, call |-> "addTable",
                              arg |-> <<tableDef, func>>])
     /\ UNCHANGED <<module, provider, notModVars>>

addTable(n, tableDef, func) ==
  Returned(n, "addTable", <<tableDef, func>>,
    ModuleFactoryNode(add(nodes[n].tableDefs, tableDef, func), nodes[n].rpc,
                      nodes[n].vsName, nodes[n].staticServedResources))

addJoinTable(n, func) ==
  Returned(n, "addJoinTable", func,
    ModuleFactoryNode(addJoin(nodes[n].tableDefs, func), nodes[n].rpc,
                      nodes[n].vsName, nodes[n].staticServedResources))

addRpcHandler(n, rpcFunc) ==
  Returned(n, "addRpcHandler", rpcFunc,
    ModuleFactoryNode(nodes[n].tableDefs, nodes[n].rpc \o <<rpcFunc>>,
                      nodes[n].vsName, nodes[n].staticServedResources))

addStaticResource(n, res) ==
  Returned(n, "addStaticResource", res,
    ModuleFactoryNode(nodes[n].tableDefs, nodes[n].rpc, nodes[n].vsName,
                      nodes[n].staticServedResources \o <<res>>))

\* (variant: the base tables taken in reverse order)
JustBaseTablesReversed(baseTables) ==
  [k \in 1..Len(baseTables) |-> baseTables[Len(baseTables) + 1 - k][1]]

\* baseTables.map({case (tbl, provFunc) => tbl})
JustBaseTables(baseTables) == [k \in 1..Len(baseTables) |-> baseTables[k][1]]

\* The foreach over tableDefs.joinDefs, from the k-th join function on.
\* acc.tds is mutableTableDefs; acc.invocations records each call of a join
\* function with the realizedTableDefs it was given; an exception ends the
\* loop (and asModule).
RECURSIVE RealizeJoins(_, _, _)
RealizeJoins(joinDefs, k, acc) ==
  IF k > Len(joinDefs) THEN acc
  ELSE LET r    == ApplyJoin(joinDefs[k], acc.tds)
           call == [func |-> joinDefs[k],
                    seen |-> acc.tds.realizedTableDefs,
                    threw |-> r.threw]
       IN IF r.threw
          THEN [acc EXCEPT !.threw = TRUE,
                           !.invocations = Append(@, call)]
          ELSE RealizeJoins(joinDefs, k + 1,
                 [tds |-> addRealized(acc.tds, r.value),
                  invocations |-> Append(acc.invocations, call),
                  threw |-> FALSE])

\* The anonymous ViewServerModule: its members close over mutableTableDefs,
\* rpc, baseTables and staticServedResources.
ViewServerModule(n, node, done) ==
  [call |-> "asModule", node |-> n, threw |-> FALSE,
   name |-> node.vsName,
   tableDefs |-> done.tds.realizedTableDefs,
   rpc |-> node.rpc,
   baseTables |-> node.tableDefs.tableDefs,
   staticFileResources |-> node.staticServedResources,
   invocations |-> done.invocations]

\* (variant: the most recently registered factory wins)
rpcHandlerUnrealizedLast(m) ==
  IF m.rpc = <<>> THEN [threw |-> TRUE]
  ELSE [threw |-> FALSE, value |-> m.rpc[Len(m.rpc)]]

\* override def rpcHandlerUnrealized = rpc.head
rpcHandlerUnrealized(m) ==
  IF m.rpc = <<>> THEN [threw |-> TRUE]
  ELSE [threw |-> FALSE, value |-> Head(m.rpc)]

\* DataTable names getProviderForTable is asked about
DataTables == { "A", "B", "J1" }

\* (variant: the last registration of the name is used)
GetProviderLast(m, table) ==
  LET hits == { k \in 1..Len(m.baseTables) : m.baseTables[k][1].name = table }
  IN IF hits = {} THEN [table |-> table, threw |-> TRUE]
     ELSE [table |-> table, threw |-> FALSE,
           factory |-> m.baseTables[CHOOSE k \in hits :
                                      \A j \in hits : j <= k][2]]

\* baseTables.find({case (td, func) => td.name == table.name}).get._2(...):
\* the factory of the first base table of that name is invoked;
\* NoSuchElementException when there is none.
GetProvider(m, table) ==
  LET hits == { k \in 1..Len(m.baseTables) : m.baseTables[k][1].name = table }
  IN IF hits = {} THEN [table |-> table, threw |-> TRUE]
     ELSE [table |-> table, threw |-> FALSE,
           factory |-> m.baseTables[CHOOSE k \in hits :
                                      \A j \in hits : k <= j][2]]

\* module.getProviderForTable(table, viewserver) on the module last built;
\* built is the number of nodes existing at the time of the call
getProviderForTable(table) ==
  /\ module.call = "asModule"
  /\ ~module.threw
  /\ provider' = [call |-> "getProviderForTable", built |-> Len(nodes),
                  result |-> GetProvider(module, table)]
  /\ UNCHANGED <<nodes, made, module, notModVars>>

asModule(n) ==
  LET node       == nodes[n]
      baseTables == node.tableDefs.tableDefs
      start      == [tds |-> TableDefs(JustBaseTables(baseTables), <<>>, <<>>),
                     invocations |-> <<>>, threw |-> FALSE]
      done       == RealizeJoins(node.tableDefs.joinDefs, 1, start)
  IN /\ module' = IF done.threw
                  THEN [call |-> "asModule", node |-> n, threw |-> TRUE,
                        invocations |-> done.invocations]
                  ELSE ViewServerModule(n, node, done)
     /\ provider' = [call |-> "none"]
     /\ UNCHANGED <<nodes, made, notModVars>>

InitModule ==
  /\ \E ns \in Namespaces : nodes = <<withNamespace(ns)>>
  /\ made = <<[from |-> 0, call |-> "withNamespace", arg |-> <<>>]>>
  /\ module = [call |-> "none"]
  /\ provider = [call |-> "none"]

NextModule ==
  \/ \E n \in 1..Len(nodes), t \in TableArgs : addTable(n, t[1], t[2])
  \/ \E n \in 1..Len(nodes), f \in JoinFuncs : addJoinTable(n, f)
  \/ \E n \in 1..Len(nodes), r \in RpcFuncs : addRpcHandler(n, r)
  \/ \E n \in 1..Len(nodes), s \in StaticArgs : addStaticResource(n, s)
  \/ \E n \in 1..Len(nodes) : asModule(n)

\* The fluent use of the builder, every call made on the node the previous
\* call returned, and the module asked for providers.
NextProvider ==
  \/ \E t \in TableArgs : addTable(Len(nodes), t[1], t[2])
  \/ \E f \in JoinFuncs : addJoinTable(Len(nodes), f)
  \/ \E r \in RpcFuncs : addRpcHandler(Len(nodes), r)
  \/ \E s \in StaticArgs : addStaticResource(Len(nodes), s)
  \/ \E n \in 1..Len(nodes) : asModule(n)
  \/ \E table \in DataTables : getProviderForTable(table)

\* ------------------------------------------------------------------------
\* useVuuMenuActions
\* ------------------------------------------------------------------------
\* handleMenuAction calls made in one run
MaxMenuCalls == 3

MenuIds == { "MENU_RPC_CALL", "link-table", "some-other-action" }

\* the options of a menu action: a VuuMenuItem or a link descriptor
MenuOptions == { "item1", "item2" }

\* what dataSource.menuRpcCall resolves with ("undefined": nothing)
RpcResponses == { "undefined", "OPEN_BULK_EDITS", "SOME_OTHER_RPC" }

\* getMenuRpcRequest(options)
getMenuRpcRequest(options) == [type |-> "MENU_RPC_CALL", item |-> options]

\* The hook with its props (clientSideMenuActionHandler and onRpcResponse
\* given or not), before any menu action.
MenuHook(hasClientHandler, hasOnRpcResponse) ==
  [hasClientHandler |-> hasClientHandler,
   hasOnRpcResponse |-> hasOnRpcResponse,
   calls       |-> 0,        \* handleMenuAction calls so far
   last        |-> [menuId |-> "none"],
   pending     |-> <<>>,     \* menuRpcCall requests not yet answered
   visualLink  |-> <<>>,     \* dataSource.visualLink
   dialog      |-> "none",   \* title of the dialog shown by showDialog
   rpcResponse |-> <<>>,     \* argument of the last onRpcResponse call
   rpcCall     |-> <<>>,     \* last dataSource.rpcCall request
   thenThrew   |-> FALSE]    \* the then-callback threw (unhandled rejection)

\* (variant: Vuu handles the item first, the client handler is not asked)
BranchIgnoringClient(clientSaysHandled, menuId) ==
  IF menuId = "MENU_RPC_CALL" THEN "rpc"
  ELSE IF menuId = "link-table" THEN "link"
  ELSE "unhandled"

\* the branch of the if / else-if chain of handleMenuAction that is taken
Branch(clientSaysHandled, menuId) ==
  IF clientSaysHandled THEN "client"
  ELSE IF menuId = "MENU_RPC_CALL" THEN "rpc"
  ELSE IF menuId = "link-table" THEN "link"
  ELSE "unhandled"

\* handleMenuAction({menuId, options}); clientResult is what the client's
\* handler answers for this item when there is one.
handleMenuAction(menuId, options, clientResult) ==
  LET handled == menu.hasClientHandler /\ clientResult
      branch  == Branch(handled, menuId)
  IN /\ menu.calls < MaxMenuCalls
     /\ menu' = [menu EXCEPT
          !.calls = @ + 1,
          !.pending = IF branch = "rpc"
                      THEN Append(@, getMenuRpcRequest(options)) ELSE @,
          !.visualLink = IF branch = "link" THEN <<options>> ELSE @,
          !.last = [menuId |-> menuId, options |-> options,
                    client |-> IF ~menu.hasClientHandler THEN "absent"
                               ELSE IF clientResult THEN "true" ELSE "false",
                    returned |-> branch \in {"client", "rpc", "link"}]]
     /\ UNCHANGED <<colVars, modVars, threads, vp, layout>>

\* The promise of the oldest menuRpcCall resolves and its then-callback runs.
menuRpcResolved(rpcResponse) ==
  /\ menu.pending # <<>>
  /\ menu' = [menu EXCEPT
       !.pending = Tail(@),
       !.rpcResponse = IF menu.hasOnRpcResponse /\ rpcResponse # "undefined"
                       THEN <<rpcResponse>> ELSE @,
       !.thenThrew = @ \/ rpcResponse = "undefined",
       !.dialog = IF rpcResponse = "OPEN_BULK_EDITS"
                  THEN "Edit Instruments" ELSE @]
  /\ UNCHANGED <<colVars, modVars, threads, vp, layout>>

\* handleSubmit of the bulk edit panel: rpcCall SAVE_BULK_EDITS, closeDialog
handleSubmit ==
  /\ menu.dialog # "none"
  /\ menu' = [menu EXCEPT !.rpcCall = <<"SAVE_BULK_EDITS">>,
                          !.dialog = "none"]
  /\ UNCHANGED <<colVars, modVars, threads, vp, layout>>

\* onClose of the bulk edit panel
closeDialog ==
  /\ menu.dialog # "none"
  /\ menu' = [menu EXCEPT !.dialog = "none"]
  /\ UNCHANGED <<colVars, modVars, threads, vp, layout>>

NextMenu ==
  \/ \E menuId \in MenuIds, options \in MenuOptions, clientResult \in BOOLEAN :
        handleMenuAction(menuId, options, clientResult)
  \/ \E rpcResponse \in RpcResponses : menuRpcResolved(rpcResponse)
  \/ handleSubmit
  \/ closeDialog

\* ------------------------------------------------------------------------
\* LayoutManagementProvider
\* ------------------------------------------------------------------------
\* runs of the loading effect (the mount included)
MaxEffectRuns == 2
\* saveApplicationLayout / saveApplicationSettings calls in one run
MaxSaves == 2
\* loadLayoutById calls in one run
MaxLayoutLoads == 1

\* A LayoutJSON document.
Lay(id) == [type |-> "Stack", id |-> id, children |-> <<>>, active |-> 0]

\* An object passed as a layout that is no LayoutJSON: it has no type.
NotALayout == [id |-> "junk"]

\* isLayoutJSON(layout)
isLayoutJSON(l) == "type" \in DOMAIN l

\* ApplicationJSON {layout, settings?}; settings is <<>> when undefined and
\* <<map>> otherwise.
AppJSON(l, settings) == [layout |-> l, settings |-> settings]

\* loadingApplicationJson
loadingApplicationJson == AppJSON(Lay("loading"), <<>>)

\* the layout of defaultApplicationJson (the system default placeholder)
systemDefaultLayout == Lay("placeholder")

\* getDefaultApplicationLayout(defaultLayout): the layout supplied by the
\* user, the system default when none was supplied
getDefaultApplicationLayout(defaultLayout) ==
  IF defaultLayout # <<>> THEN defaultLayout[1] ELSE systemDefaultLayout

\* the defaultLayout prop: not given, or a layout of the user
DefaultLayoutProps == { <<>>, <<Lay("userDefault")>> }

\* what persistenceManager.loadApplicationJSON resolves with: nothing, or
\* the stored application JSON
StoredJSONs ==
  { <<>>,
    <<AppJSON(Lay("stored"), <<[theme |-> "dark"]>>)>>,
    <<AppJSON(Lay("stored"), <<>>)>> }

\* layouts handed to saveApplicationLayout
SaveLayoutArgs == { Lay("edited"), NotALayout }

\* saveApplicationSettings(settings, key): one setting under a key, or a
\* settings object without key (key = "")
\* (with a key, value is the setting and settings the same as an object)
SaveSettingsArgs ==
  { [key |-> "theme", value |-> "light", settings |-> [theme |-> "light"]],
    [key |-> "", value |-> "", settings |-> [density |-> "high"]],
    [key |-> "", value |-> "",
     settings |-> [theme |-> "dark", density |-> "low"]] }

LoadFailed == [header |-> "Failed to Load Layout",
               body |-> "Could not load your latest view"]

MetadataFailed == [header |-> "Failed to Load Layouts",
                   body |-> "Could not load list of available layouts"]

LayoutLoadFailed == [header |-> "Failed to Load Layout",
                     body |-> "Failed to load the requested layout"]

\* {...a, ...b} of two settings objects
Spread(a, b) ==
  [k \in (DOMAIN a) \cup (DOMAIN b) |-> IF k \in DOMAIN b THEN b[k] ELSE a[k]]

\* {...settings} of a settings object that may be undefined
SpreadOpt(settings) == IF settings = <<>> THEN <<>> ELSE settings[1]

\* The provider after its first render and the mount effect: the ref holds
\* loadingApplicationJson; with a persistence manager the two loads are
\* under way.
LayoutProvider(hasManager, defaultLayout) ==
  [hasManager      |-> hasManager,
   defaultLayout   |-> defaultLayout,
   applicationJSON |-> loadingApplicationJson,   \* applicationJSONRef.current
   layoutMetadata  |-> <<>>,
   effectRuns      |-> 1,
   pendingLoads    |-> IF hasManager THEN 1 ELSE 0,  \* loadApplicationJSON
   pendingMetadata |-> IF hasManager THEN 1 ELSE 0,  \* loadMetadata
   pendingLayouts  |-> 0,                            \* loadLayout(id)
   layoutLoads     |-> 0,
   notifications   |-> {},
   renders         |-> FALSE,     \* forceRefresh was called by the last step
   saves           |-> 0,
   persists        |-> 0,         \* saveApplicationJSON calls so far
   persisted       |-> <<>>,      \* argument of the last saveApplicationJSON
   savedLayout     |-> <<>>,      \* layout of the last valid saveApplicationLayout
   savedSettings   |-> <<>>,      \* settings of the last saveApplicationSettings
   event           |-> [kind |-> "mount"]]

\* the effect runs again (one of its dependencies changed)
runEffect ==
  /\ layout.effectRuns < MaxEffectRuns
  /\ layout' = [layout EXCEPT
       !.effectRuns = @ + 1,
       !.pendingLoads = IF layout.hasManager THEN @ + 1 ELSE @,
       !.pendingMetadata = IF layout.hasManager THEN @ + 1 ELSE @,
       !.renders = FALSE,
       !.event = [kind |-> "effect"]]
  /\ UNCHANGED <<colVars, modVars, threads, vp, menu>>

\* loadMetadata() resolved: setLayoutMetadata(metadata)
metadataLoaded ==
  /\ layout.pendingMetadata > 0
  /\ layout' = [layout EXCEPT
       !.pendingMetadata = @ - 1,
       !.layoutMetadata = <<"metadata">>,
       !.renders = TRUE,
       !.event = [kind |-> "metadataLoaded"]]
  /\ UNCHANGED <<colVars, modVars, threads, vp, menu>>

\* loadMetadata() rejected
metadataFailed ==
  /\ layout.pendingMetadata > 0
  /\ layout' = [layout EXCEPT
       !.pendingMetadata = @ - 1,
       !.notifications = @ \cup {MetadataFailed},
       !.renders = FALSE,
       !.event = [kind |-> "metadataFailed"]]
  /\ UNCHANGED <<colVars, modVars, threads, vp, menu>>

\* (variant: a default layout of the user wins over the stored state)
LoadedJSONDefaultFirst(stored, defaultLayout) ==
  IF defaultLayout # <<>> THEN AppJSON(defaultLayout[1], <<>>)
  ELSE IF stored # <<>> THEN stored[1]
  ELSE AppJSON(getDefaultApplicationLayout(defaultLayout), <<>>)

\* the application JSON the then-callback of loadApplicationJSON sets
LoadedJSON(stored, defaultLayout) ==
  IF stored # <<>> THEN stored[1]
  ELSE AppJSON(getDefaultApplicationLayout(defaultLayout), <<>>)

\* loadApplicationJSON() resolved with stored (<<>>: nothing stored)
applicationJSONLoaded(stored) ==
  /\ layout.pendingLoads > 0
  /\ layout' = [layout EXCEPT
       !.pendingLoads = @ - 1,
       !.applicationJSON = LoadedJSON(stored, layout.defaultLayout),
       !.renders = TRUE,
       !.event = [kind |-> "loaded", stored |-> stored]]
  /\ UNCHANGED <<colVars, modVars, threads, vp, menu>>

\* loadApplicationJSON() rejected
applicationJSONFailed ==
  /\ layout.pendingLoads > 0
  /\ layout' = [layout EXCEPT
       !.pendingLoads = @ - 1,
       !.notifications = @ \cup {LoadFailed},
       !.renders = FALSE,
       !.event = [kind |-> "loadFailed"]]
  /\ UNCHANGED <<colVars, modVars, threads, vp, menu>>

\* (variant: the whole application JSON is replaced by the layout alone)
WithLayoutOnly(json, l) == AppJSON(l, <<>>)

\* setApplicationLayout: {...applicationJSONRef.current, layout}
WithLayout(json, l) == [json EXCEPT !.layout = l]

\* setApplicationSettings:
\* {...current, settings: {...current.settings, ...settings}}
WithSettings(json, settings) ==
  [json EXCEPT !.settings = <<Spread(SpreadOpt(json.settings), settings)>>]

\* persistenceManager?.saveApplicationJSON(json) on the provider state p
Persist(p, json) ==
  IF p.hasManager
  THEN [p EXCEPT !.persists = @ + 1, !.persisted = <<json>>]
  ELSE p

saveApplicationLayout(l) ==
  /\ layout.saves < MaxSaves
  /\ LET json == WithLayout(layout.applicationJSON, l)
         base == [layout EXCEPT
                    !.saves = @ + 1,
                    !.renders = FALSE,
                    !.event = [kind |-> "saveApplicationLayout", arg |-> l]]
     IN layout' =
          IF isLayoutJSON(l)
          THEN Persist([base EXCEPT !.applicationJSON = json,
                                    !.savedLayout = <<l>>], json)
          ELSE base
  /\ UNCHANGED <<colVars, modVars, threads, vp, menu>>

\* saveApplicationSettings(settings, key); key = "" when no key is given
saveApplicationSettings(a) ==
  /\ layout.saves < MaxSaves
  /\ LET applicationSettings == SpreadOpt(layout.applicationJSON.settings)
         given == IF a.key # ""
                  THEN Spread(applicationSettings, [k \in {a.key} |-> a.value])
                  ELSE a.settings
         json  == WithSettings(layout.applicationJSON, given)
     IN layout' =
          Persist([layout EXCEPT
                     !.saves = @ + 1,
                     !.applicationJSON = json,
                     !.savedSettings = <<a>>,
                     !.renders = FALSE,
                     !.event = [kind |-> "saveApplicationSettings", arg |-> a]],
                  json)
  /\ UNCHANGED <<colVars, modVars, threads, vp, menu>>

\* getApplicationSettings(key); key = "" when no key is given
getApplicationSettings(key) ==
  LET settings == layout.applicationJSON.settings
  IN IF key = "" THEN settings
     ELSE IF settings # <<>> /\ key \in DOMAIN settings[1]
          THEN <<settings[1][key]>> ELSE <<>>

\* loadLayoutById(id): persistenceManager?.loadLayout(id) is called
loadLayoutById ==
  /\ layout.layoutLoads < MaxLayoutLoads
  /\ layout' = [layout EXCEPT
       !.layoutLoads = @ + 1,
       !.pendingLayouts = IF layout.hasManager THEN @ + 1 ELSE @,
       !.renders = FALSE,
       !.event = [kind |-> "loadLayoutById"]]
  /\ UNCHANGED <<colVars, modVars, threads, vp, menu>>

\* loadLayout(id) resolved: the layout is added as a child of the current
\* layout and made the active one
layoutLoaded ==
  /\ layout.pendingLayouts > 0
  /\ LET currentLayout == layout.applicationJSON.layout
     IN layout' = [layout EXCEPT
          !.pendingLayouts = @ - 1,
          !.applicationJSON =
             WithLayout(@, [currentLayout EXCEPT
                              !.children = @ \o <<"loadedLayout">>,
                              !.active = Len(currentLayout.children)]),
          !.renders = TRUE,
          !.event = [kind |-> "layoutLoaded"]]
  /\ UNCHANGED <<colVars, modVars, threads, vp, menu>>

\* loadLayout(id) rejected
layoutLoadFailed ==
  /\ layout.pendingLayouts > 0
  /\ layout' = [layout EXCEPT
       !.pendingLayouts = @ - 1,
       !.notifications = @ \cup {LayoutLoadFailed},
       !.renders = FALSE,
       !.event = [kind |-> "layoutLoadFailed"]]
  /\ UNCHANGED <<colVars, modVars, threads, vp, menu>>

NextLayout ==
  \/ runEffect
  \/ metadataLoaded
  \/ metadataFailed
  \/ \E stored \in StoredJSONs : applicationJSONLoaded(stored)
  \/ applicationJSONFailed
  \/ \E l \in SaveLayoutArgs : saveApplicationLayout(l)
  \/ \E a \in SaveSettingsArgs : saveApplicationSettings(a)
  \/ loadLayoutById
  \/ layoutLoaded
  \/ layoutLoadFailed

\* ------------------------------------------------------------------------
\* Viewport subscription engine (one Data Table, one Viewport, one client)
\* ------------------------------------------------------------------------
\* table mutations in one run
MaxVersion == 3
\* range / filter / sort changes of the client in one run
MaxClientChanges == 2

\* The engine after subscribe: the Viewport is CREATED, nothing is computed.
\*   version  the table-wide version counter
\*   queue    work waiting for the Viewport's turn: change notifications
\*            (with the version of the mutation) and recomputations
\*   work     the computation in progress, with the table version of the
\*            snapshot it reads; <<>> when the Viewport is not being served
\*   deltas   the versions carried by the deltas delivered to the client
ViewportCreated ==
  [version |-> 0, state |-> "CREATED", changes |-> 0,
   queue |-> <<>>, work |-> <<>>, deltas |-> <<>>,
   closedFrom |-> "none", event |-> "subscribe"]

\* A Provider mutates the table: the version counter is incremented and the
\* change is notified to the Viewport unless it is CLOSED.
upsert ==
  /\ vp.version < MaxVersion
  /\ vp' = [vp EXCEPT
       !.version = @ + 1,
       !.queue = IF vp.state = "CLOSED" THEN @
                 ELSE Append(@, [kind |-> "change", version |-> vp.version + 1]),
       !.event = "upsert"]
  /\ UNCHANGED <<colVars, modVars, threads, menu, layout>>

\* The client changes range, filter, sort or projection: the Viewport goes
\* to UPDATING and a recomputation of the window is due.
changeRange ==
  /\ vp.state \in {"ACTIVE", "UPDATING"}
  /\ vp.changes < MaxClientChanges
  /\ vp' = [vp EXCEPT
       !.changes = @ + 1,
       !.state = "UPDATING",
       !.queue = Append(@, [kind |-> "recompute", version |-> vp.version]),
       !.event = "changeRange"]
  /\ UNCHANGED <<colVars, modVars, threads, menu, layout>>

\* (variant: the delta of a change notification carries the version of the
\* notified mutation instead of that of the snapshot it is computed on)
DeltaVersionOfEvent(item, snapshot) ==
  IF item.kind = "change" THEN item.version ELSE snapshot

\* the version a delta carries: that of the table snapshot it is computed on
DeltaVersion(item, snapshot) == snapshot

\* A worker serves the Viewport: processing is serialized per Viewport, so
\* only when no computation is in progress. A CREATED Viewport computes its
\* first window, otherwise the next queued item is taken.
compute ==
  /\ vp.state # "CLOSED"
  /\ vp.work = <<>>
  /\ \/ /\ vp.state = "CREATED"
        /\ vp' = [vp EXCEPT
             !.work = <<[kind |-> "initial",
                         version |-> DeltaVersion([kind |-> "initial",
                                        version |-> 0], vp.version)]>>,
             !.event = "compute"]
     \/ /\ vp.state # "CREATED"
        /\ vp.queue # <<>>
        /\ vp' = [vp EXCEPT
             !.queue = Tail(@),
             !.work = <<[kind |-> Head(vp.queue).kind,
                         version |-> DeltaVersion(Head(vp.queue), vp.version)]>>,
             !.event = "compute"]
  /\ UNCHANGED <<colVars, modVars, threads, menu, layout>>

\* (variant: a finished computation is delivered whatever the state)
MayEmitAlways(state) == TRUE

\* a delta is delivered only for a Viewport that is not CLOSED
MayEmit(state) == state # "CLOSED"

\* The computation in progress ends and its delta is delivered. After the
\* first window and after a recomputation with no further one queued the
\* Viewport is ACTIVE.
emit ==
  /\ vp.work # <<>>
  /\ MayEmit(vp.state)
  /\ vp' = [vp EXCEPT
       !.work = <<>>,
       !.deltas = Append(@, vp.work[1].version),
       !.state =
          IF vp.state = "CLOSED" THEN "CLOSED"
          ELSE IF vp.work[1].kind = "change" THEN @
          ELSE IF \E k \in 1..Len(vp.queue) : vp.queue[k].kind = "recompute"
               THEN "UPDATING" ELSE "ACTIVE",
       !.event = "emit"]
  /\ UNCHANGED <<colVars, modVars, threads, menu, layout>>

\* The client unsubscribes: the Viewport is CLOSED, whatever was queued for
\* it is dropped; a computation in progress is left to be discarded.
unsubscribe ==
  /\ vp.state # "CLOSED"
  /\ vp' = [vp EXCEPT
       !.state = "CLOSED",
       !.closedFrom = vp.state,
       !.queue = <<>>,
       !.event = "unsubscribe"]
  /\ UNCHANGED <<colVars, modVars, threads, menu, layout>>

\* The computation in progress of a CLOSED Viewport is discarded.
discard ==
  /\ vp.state = "CLOSED"
  /\ vp.work # <<>>
  /\ vp' = [vp EXCEPT !.work = <<>>, !.event = "discard"]
  /\ UNCHANGED <<colVars, modVars, threads, menu, layout>>

NextViewport ==
  \/ upsert
  \/ changeRange
  \/ compute
  \/ emit
  \/ unsubscribe
  \/ discard

\* ------------------------------------------------------------------------
\* Specifications
\* ------------------------------------------------------------------------
\* new ViewPortColumns(List()) for both instances
EmptyColumns ==
  /\ columns = [i \in Insts |-> <<>>]
  /\ hasCalculatedColumn = [i \in Insts |-> [evaluated |-> FALSE, value |-> FALSE]]
  /\ ret = NoCall

\* everything but the ViewPortColumns instances and the module builder, as
\* constructed: no thread in addColumn, a subscribed Viewport, a hook
\* without client handler, a provider without persistence manager
OthersConstructed ==
  /\ threads = ThreadsReady(0)
  /\ vp = ViewportCreated
  /\ menu = MenuHook(FALSE, FALSE)
  /\ layout = LayoutProvider(FALSE, <<>>)

\* ViewPortColumns over any column lists, beside a fresh namespace node
Init == InitColumns /\ InitModule /\ OthersConstructed

\* empty ViewPortColumns, beside a fresh namespace node
InitAssembly == EmptyColumns /\ InitModule /\ OthersConstructed

\* a ViewPortColumns over any column list, about to be shared by the threads
InitThreads ==
  /\ \E cols \in SeqsUpTo(Columns, MaxColumns) :
        /\ columns = [i \in Insts |-> IF i = Shared THEN cols ELSE <<>>]
        /\ threads = ThreadsReady(Len(cols))
  /\ hasCalculatedColumn = [i \in Insts |-> [evaluated |-> FALSE, value |-> FALSE]]
  /\ ret = NoCall
  /\ InitModule
  /\ vp = ViewportCreated
  /\ menu = MenuHook(FALSE, FALSE)
  /\ layout = LayoutProvider(FALSE, <<>>)

\* a Viewport just subscribed
InitViewport ==
  /\ EmptyColumns
  /\ InitModule
  /\ threads = ThreadsReady(0)
  /\ vp = ViewportCreated
  /\ menu = MenuHook(FALSE, FALSE)
  /\ layout = LayoutProvider(FALSE, <<>>)

\* a useVuuMenuActions hook with any props
InitMenu ==
  /\ EmptyColumns
  /\ InitModule
  /\ threads = ThreadsReady(0)
  /\ vp = ViewportCreated
  /\ \E h \in BOOLEAN, r \in BOOLEAN : menu = MenuHook(h, r)
  /\ layout = LayoutProvider(FALSE, <<>>)

\* a LayoutManagementProvider with any props, mounted
InitLayout ==
  /\ EmptyColumns
  /\ InitModule
  /\ threads = ThreadsReady(0)
  /\ vp = ViewportCreated
  /\ menu = MenuHook(FALSE, FALSE)
  /\ \E m \in BOOLEAN, d \in DefaultLayoutProps : layout = LayoutProvider(m, d)

\* ViewPortColumns instances built from any column list, then used.
SpecColumns == Init /\ [][NextColumns]_vars

\* A module built up from ModuleFactory.withNamespace.
SpecModule == InitAssembly /\ [][NextModule]_vars

\* A module built in the fluent style and asked for its providers.
SpecProvider == InitAssembly /\ [][NextProvider]_vars

\* Two threads calling addColumn on one ViewPortColumns.
SpecThreads == InitThreads /\ [][NextThreads]_vars

\* One Viewport over a table that is being mutated.
SpecViewport == InitViewport /\ [][NextViewport]_vars

\* Menu actions handled by useVuuMenuActions.
SpecMenu == InitMenu /\ [][NextMenu]_vars

\* A LayoutManagementProvider loading and saving the application JSON.
SpecLayout == InitLayout /\ [][NextLayout]_vars

\* ------------------------------------------------------------------------
\* Properties of ViewPortColumns
\* ------------------------------------------------------------------------
NamesOf(cols) == { cols[k].name : k \in 1..Len(cols) }

\* number of columns of cols carrying the (name, dataType) pair of c
PairCount(cols, c) ==
  Cardinality({ k \in 1..Len(cols) :
                  cols[k].name = c.name /\ cols[k].dataType = c.dataType })

\* same multiset of (name, dataType) pairs
SamePairs(l, r) == \A c \in Columns : PairCount(l, c) = PairCount(r, c)

\* C1: whenever the column list holds a CalculatedColumn when pullRow is
\* called, whatever addColumn and pullRow calls came before, pullRow returns
\* a new row whose fields are exactly the columns, each mapped to
\* row.get(column).
C1_PullRowProjectsWhenCalculated ==
  (ret.op = "pullRow" /\ ExistsCalculated(columns[ret.inst])) =>
     /\ ret.result.ref = "new"
     /\ DOMAIN ret.result.data = NamesOf(columns[ret.inst])
     /\ \A n \in DOMAIN ret.result.data :
          \E k \in 1..Len(columns[ret.inst]) :
             /\ columns[ret.inst][k].name = n
             /\ ret.result.data[n] = RowGet(ret.row, columns[ret.inst][k])

\* C2: with no CalculatedColumn in the column list, pullRow returns the very
\* row object it was given, for every key and row.
C2_PullRowReturnsSourceWhenNoCalculated ==
  (ret.op = "pullRow" /\ ~ExistsCalculated(columns[ret.inst])) =>
     ret.result = [ref |-> "source", data |-> ret.row]

\* pullRow answered on a non-empty list without calculated column, after the
\* list had been grown by addColumn.
C2_Witness ==
  /\ ret.op = "pullRow"
  /\ ~ExistsCalculated(columns[ret.inst])
  /\ Len(columns[ret.inst]) = MaxColumns
  /\ hasCalculatedColumn[ret.inst].evaluated
  /\ ret.result.ref = "source"

\* C3: equals is order independent: true (in both directions, this and that
\* ranging over both instances) when the two hold the same (name, dataType)
\* pairs in any order, false when they differ in size or in any pair.
C3_EqualsIsSamePairs ==
  (ret.op = "equals" /\ ret.that # 0) =>
     (ret.result <=> SamePairs(columns[ret.inst], columns[ret.that]))

\* C4: addColumn of a column whose name is already present with another
\* dataType fails and leaves the column list unchanged.
C4_AddColumnRejectsTypeClash ==
  (/\ ret.op = "addColumn"
   /\ \E k \in 1..Len(ret.before) :
        /\ ret.before[k].name = ret.column.name
        /\ ret.before[k].dataType # ret.column.dataType)
  => (ret.threw /\ columns[ret.inst] = ret.before)

\* C5: addColumn of a column already present with the same name and
\* dataType leaves getColumns() and count() unchanged.
C5_ReAddIsIdempotent ==
  (/\ ret.op = "addColumn"
   /\ \E k \in 1..Len(ret.before) :
        /\ ret.before[k].name = ret.column.name
        /\ ret.before[k].dataType = ret.column.dataType)
  => (getColumns(ret.inst) = ret.before /\ count(ret.inst) = Len(ret.before))

\* ------------------------------------------------------------------------
\* Properties of module assembly
\* ------------------------------------------------------------------------
\* The arguments of the calls of the given kind that led from withNamespace
\* to nodes[i], in the order the calls were made.
RECURSIVE Declared(_, _)
Declared(i, call) ==
  IF made[i].from = 0 THEN <<>>
  ELSE Declared(made[i].from, call)
         \o (IF made[i].call = call THEN <<made[i].arg>> ELSE <<>>)

\* the table definitions given to addTable on the way to nodes[i]
DeclaredTables(i) ==
  LET args == Declared(i, "addTable") IN [k \in 1..Len(args) |-> args[k][1]]

\* C6: asModule() invokes the join functions in declaration order, and the
\* i-th one is given exactly the base table definitions followed by the
\* results of the join functions 1..i-1.
C6_JoinsSeeBaseThenEarlierJoins ==
  module.call = "asModule" =>
    LET joins == Declared(module.node, "addJoinTable")
        inv   == module.invocations
    IN /\ Len(inv) <= Len(joins)
       /\ ~module.threw => Len(inv) = Len(joins)
       /\ \A i \in 1..Len(inv) :
            /\ inv[i].func = joins[i]
            /\ inv[i].seen = DeclaredTables(module.node)
                 \o [k \in 1..(i-1) |-> JoinTableDef(joins[k].produces)]

\* a module assembled from a base table and two joins, the second using the
\* first one's result
C6_Witness ==
  /\ module.call = "asModule"
  /\ ~module.threw
  /\ Len(module.invocations) = 2
  /\ module.invocations[1].seen # <<>>
  /\ module.invocations[1].func.produces \in module.invocations[2].func.uses

\* the names the i-th declared join function of nodes[n] may look up: the
\* base tables and the results of the joins declared before it
Resolvable(n, i) ==
  { DeclaredTables(n)[k].name : k \in 1..Len(DeclaredTables(n)) }
    \cup { Declared(n, "addJoinTable")[k].produces : k \in 1..(i-1) }

\* C7: when a join function looks up a name that is neither a base table
\* nor the result of an earlier declared join, asModule() fails and no
\* ViewServerModule is produced.
C7_UnknownDependencyFailsAssembly ==
  (/\ module.call = "asModule"
   /\ \E i \in 1..Len(Declared(module.node, "addJoinTable")) :
        ~(Declared(module.node, "addJoinTable")[i].uses
             \subseteq Resolvable(module.node, i)))
  => (module.threw /\ "tableDefs" \notin DOMAIN module)

\* asModule() failed in the second join function, after a first one was
\* realized
C7_Witness ==
  /\ module.call = "asModule"
  /\ module.threw
  /\ Len(module.invocations) = 2
  /\ module.invocations[2].threw
  /\ DeclaredTables(module.node) # <<>>

\* what a call on receiver r must return
Expected(r, call, arg) ==
  CASE call = "addTable" ->
         [r EXCEPT !.tableDefs.tableDefs = Append(@, arg)]
    [] call = "addJoinTable" ->
         [r EXCEPT !.tableDefs.joinDefs = Append(@, arg)]
    [] call = "addRpcHandler" ->
         [r EXCEPT !.rpc = Append(@, arg)]
    [] call = "addStaticResource" ->
         [r EXCEPT !.staticServedResources = Append(@, arg)]

\* C8: every add* call returns a new node and leaves every node built
\* before (the receiver included) as it was; the returned node is the
\* receiver with one element appended to the field of the call.
C8_AddReturnsNewNodeReceiverUnchanged ==
  [][ /\ \A i \in 1..Len(nodes) : i <= Len(nodes') /\ nodes'[i] = nodes[i]
      /\ Len(nodes') > Len(nodes) =>
           /\ Len(nodes') = Len(nodes) + 1
           /\ nodes'[Len(nodes')] =
                Expected(nodes[made'[Len(nodes')].from],
                         made'[Len(nodes')].call, made'[Len(nodes')].arg) ]_vars

\* one node received two different add* calls
C8_Witness ==
  \E i, j \in 2..Len(nodes) :
    /\ i < j
    /\ made[i].from = made[j].from
    /\ made[i].call = "addTable"
    /\ made[j].call # made[i].call

\* C9: a module's table names are pairwise distinct: an assembly in which
\* two realized table definitions would share a name fails.
C9_TableNamesDistinct ==
  (module.call = "asModule" /\ ~module.threw) =>
     \A i, j \in 1..Len(module.tableDefs) :
        i # j => module.tableDefs[i].name # module.tableDefs[j].name

\* C10: after one or more addRpcHandler calls the module's
\* rpcHandlerUnrealized is the factory registered first.
C10_FirstRpcHandlerBound ==
  (/\ module.call = "asModule"
   /\ ~module.threw
   /\ Declared(module.node, "addRpcHandler") # <<>>)
  => rpcHandlerUnrealized(module) =
       [threw |-> FALSE, value |-> Declared(module.node, "addRpcHandler")[1]]

\* a module of a node on which two different factories were registered
C10_Witness ==
  /\ module.call = "asModule"
  /\ ~module.threw
  /\ Len(Declared(module.node, "addRpcHandler")) >= 2
  /\ Declared(module.node, "addRpcHandler")[1]
       # Declared(module.node, "addRpcHandler")[2]
  /\ ~rpcHandlerUnrealized(module).threw

\* C15: hashCode agrees with equals: two ViewPortColumns that equals finds
\* equal have the same hashCode, whatever their declaration order.
C15_EqualColumnsHashAlike ==
  (ret.op = "equals" /\ ret.that # 0 /\ ret.result) =>
     HashCode(columns[ret.inst]) = HashCode(columns[ret.that])

\* equals answered true for two lists declared in different orders
C15_Witness ==
  /\ ret.op = "equals"
  /\ ret.that # 0
  /\ ret.result
  /\ Len(columns[ret.inst]) = MaxColumns
  /\ columns[ret.inst] # columns[ret.that]

\* C16: getProviderForTable invokes the factory of the first addTable
\* registration whose table definition has the name of the table, and fails
\* when no registration has that name.
C16_ProviderOfFirstRegistration ==
  provider.call = "getProviderForTable" =>
    LET regs == Declared(module.node, "addTable")
        hits == { k \in 1..Len(regs) : regs[k][1].name = provider.result.table }
    IN IF hits = {} THEN provider.result.threw
       ELSE /\ ~provider.result.threw
            /\ \E k \in hits :
                 /\ \A j \in hits : k <= j
                 /\ provider.result.factory = regs[k][2]

\* a provider obtained for a name registered twice, with two factories
C16_Witness ==
  /\ provider.call = "getProviderForTable"
  /\ ~provider.result.threw
  /\ \E i, j \in 1..Len(module.baseTables) :
       /\ i < j
       /\ module.baseTables[i][1].name = provider.result.table
       /\ module.baseTables[j][1].name = provider.result.table
       /\ module.baseTables[i][2] # module.baseTables[j][2]

\* C17: the module is frozen: its tableDefs are the base table definitions
\* in addTable order followed by the join results in addJoinTable order, and
\* they, the provider bindings and the static resources stay so whatever
\* add* calls are made after asModule() returned.
C17_ModuleFrozen ==
  (module.call = "asModule" /\ ~module.threw) =>
    LET joins == Declared(module.node, "addJoinTable")
    IN /\ module.tableDefs =
            DeclaredTables(module.node)
              \o [k \in 1..Len(joins) |-> JoinTableDef(joins[k].produces)]
       /\ Len(module.tableDefs) =
            Len(Declared(module.node, "addTable")) + Len(joins)
       /\ module.baseTables = Declared(module.node, "addTable")
       /\ module.staticFileResources =
            Declared(module.node, "addStaticResource")

\* the node of a module of a base table and a join received an add* call
\* after the module had been built and asked for a provider
C17_Witness ==
  /\ module.call = "asModule"
  /\ ~module.threw
  /\ Len(module.tableDefs) >= 2
  /\ module.tableDefs[Len(module.tableDefs)].join
  /\ provider.call = "getProviderForTable"
  /\ \E j \in (provider.built + 1)..Len(nodes) : made[j].from = module.node

\* ------------------------------------------------------------------------
\* Properties of concurrent addColumn
\* ------------------------------------------------------------------------
\* C18: when two threads have called addColumn on one ViewPortColumns, both
\* columns are in getColumns() and count() has grown by exactly 2.
C18_NoLostColumn ==
  (\A t \in Threads : threads.thr[t].pc = "done") =>
     /\ count(Shared) = threads.count0 + Cardinality(Threads)
     /\ \A t \in Threads :
          \E k \in (threads.count0 + 1)..count(Shared) :
             getColumns(Shared)[k] = threads.thr[t].column[1]

\* ------------------------------------------------------------------------
\* Properties of the viewport engine
\* ------------------------------------------------------------------------
\* C11: the versions carried by the deltas the client receives from the
\* Viewport never decrease, however table changes and client changes
\* interleave.
C11_DeltaVersionsNonDecreasing ==
  \A i, j \in 1..Len(vp.deltas) : i < j => vp.deltas[i] <= vp.deltas[j]

\* deltas of different versions were delivered around a client change
C11_Witness ==
  /\ Len(vp.deltas) >= 3
  /\ vp.deltas[1] < vp.deltas[Len(vp.deltas)]
  /\ vp.changes >= 1
  /\ vp.version = MaxVersion

\* C12: unsubscribe can be issued in CREATED, ACTIVE and UPDATING, it moves
\* the Viewport to CLOSED, CLOSED is terminal and no delta is delivered once
\* the Viewport is CLOSED.
C12_NoDeltaAfterUnsubscribe ==
  /\ [](vp.state \in {"CREATED", "ACTIVE", "UPDATING"} => ENABLED unsubscribe)
  /\ [][ /\ (vp' # vp /\ vp'.event = "unsubscribe") => vp'.state = "CLOSED"
         /\ vp.state = "CLOSED" =>
              (vp'.state = "CLOSED" /\ vp'.deltas = vp.deltas) ]_vars

\* the Viewport was closed while UPDATING, with a computation in progress
\* and table changes still arriving
C12_Witness ==
  /\ vp.state = "CLOSED"
  /\ vp.closedFrom = "UPDATING"
  /\ vp.work # <<>>
  /\ vp.event = "upsert"

\* ------------------------------------------------------------------------
\* Properties of useVuuMenuActions
\* ------------------------------------------------------------------------
\* C13: when the client's handler answers true, handleMenuAction returns
\* true and nothing else happens (no menuRpcCall, no visualLink, no dialog);
\* when it answers false or is absent, handleMenuAction returns true for
\* MENU_RPC_CALL and link-table and false for any other menuId.
C13_ClientHandlerFirst ==
  [][ menu'.calls = menu.calls + 1 =>
        IF menu'.last.client = "true"
        THEN /\ menu'.last.returned
             /\ menu'.pending = menu.pending
             /\ menu'.visualLink = menu.visualLink
             /\ menu'.dialog = menu.dialog
             /\ menu'.rpcCall = menu.rpcCall
        ELSE menu'.last.returned
               = (menu'.last.menuId \in {"MENU_RPC_CALL", "link-table"}) ]_vars

\* the client's handler took a MENU_RPC_CALL item and no request is pending
C13_Witness ==
  /\ menu.last.menuId = "MENU_RPC_CALL"
  /\ menu.last.client = "true"
  /\ menu.last.returned
  /\ menu.pending = <<>>
  /\ menu.calls = 1

\* ------------------------------------------------------------------------
\* Properties of LayoutManagementProvider
\* ------------------------------------------------------------------------
\* the default layout of this provider
DefaultLayout == getDefaultApplicationLayout(layout.defaultLayout)

\* a loadApplicationJSON promise settles in this step
LoadSettles == layout'.pendingLoads < layout.pendingLoads

SettingsCarry(s, a) ==
  /\ s # <<>>
  /\ IF a.key # "" THEN a.key \in DOMAIN s[1] /\ s[1][a.key] = a.value
     ELSE \A k \in DOMAIN a.settings :
            k \in DOMAIN s[1] /\ s[1][k] = a.settings[k]

\* the effect of a saveApplicationLayout / saveApplicationSettings call
SaveEffect ==
  layout'.saves = layout.saves + 1 =>
    LET e == layout'.event
    IN IF e.kind = "saveApplicationLayout"
       THEN IF ~isLayoutJSON(e.arg)
            THEN /\ layout'.applicationJSON = layout.applicationJSON
                 /\ layout'.persists = layout.persists
            ELSE /\ layout'.applicationJSON.layout = e.arg
                 /\ layout'.applicationJSON.settings
                      = layout.applicationJSON.settings
                 /\ layout.hasManager =>
                      /\ layout'.persists = layout.persists + 1
                      /\ layout'.persisted = <<layout'.applicationJSON>>
       ELSE /\ layout'.applicationJSON.layout = layout.applicationJSON.layout
            /\ SettingsCarry(layout'.applicationJSON.settings, e.arg)
            /\ \A k \in DOMAIN SpreadOpt(layout.applicationJSON.settings) :
                 /\ k \in DOMAIN layout'.applicationJSON.settings[1]
                 /\ (k # e.arg.key /\ k \notin DOMAIN e.arg.settings) =>
                      layout'.applicationJSON.settings[1][k]
                        = layout.applicationJSON.settings[1][k]
            /\ layout.hasManager =>
                 /\ layout'.persists = layout.persists + 1
                 /\ layout'.persisted = <<layout'.applicationJSON>>

\* the persisted application JSON holds the layout and the settings saved
\* last
PersistedIsLastSaved ==
  layout.persisted # <<>> =>
    /\ layout.savedLayout # <<>> =>
         layout.persisted[1].layout = layout.savedLayout[1]
    /\ layout.savedSettings # <<>> =>
         SettingsCarry(layout.persisted[1].settings, layout.savedSettings[1])

\* C19 (as stated): an invalid layout changes and persists nothing, a valid
\* one replaces only the layout and is persisted, saveApplicationSettings
\* changes only the settings, and so every persisted application JSON
\* carries the most recently saved layout and the most recently saved
\* settings.
C19_PersistedCarriesLastSaved ==
  [][SaveEffect /\ PersistedIsLastSaved']_vars

\* C19 (amended): as above, but what is persisted is the application JSON
\* current at the time of the call with the saved layout or settings put in.
C19_SaveChangesOnlyItsField ==
  [][SaveEffect]_vars

\* settings were saved after a layout, and both are in the persisted JSON
C19_Witness ==
  /\ layout.persists = 2
  /\ layout.event.kind = "saveApplicationSettings"
  /\ layout.savedLayout # <<>>
  /\ layout.persisted[1].layout = layout.savedLayout[1]
  /\ layout.persisted[1].settings # <<>>

====
